---- MODULE Spec2Model ----
(***************************************************************************)
(* A model of libwyag.py: the object store (obj_write / obj_read /         *)
(* obj_find / object_hash / cat_file), the KVLM codec (kvlm_parse /         *)
(* kvlm_serialize) and the commit-graph walk (log_graphviz).                *)
(*                                                                         *)
(* Byte strings are sequences of byte values.  Positions are 0-based as in *)
(* Python; At(raw, i) is raw[i].                                            *)
(***************************************************************************)
EXTENDS Integers, Sequences, FiniteSets, TLC

VARIABLES
    store,     \* the files under .git/objects: path -> file contents
    first,     \* history: path -> framed bytes the file held when it first appeared
    wrote,     \* history: <<framed bytes, id>> of every obj_write that wrote
    call,      \* the last operation called and its arguments
    ret,       \* what the last operation returned or raised
    kpc,       \* KVLM round trip: position in parse; serialize; parse
    kraw,      \* KVLM round trip: the input text
    kvlm,      \* KVLM round trip: kvlm_parse(kraw)
    ktext,     \* KVLM round trip: kvlm_serialize(kvlm)
    kvlm2,     \* KVLM round trip: kvlm_parse(ktext)
    wpc,       \* walk: "idle", "run", "done" or "error"
    history,   \* walk: id -> parent ids of the commits put in the store
    objects,   \* walk: id -> what obj_read(repo, id) returns or raises
    start,     \* walk: the sha cmd_log starts at
    stack,     \* walk: the call stack of log_graphviz, innermost frame last
    seen,      \* walk: the seen set
    printed,   \* walk: the edges printed so far, in order
    reads      \* walk: history, the shas handed to obj_read, in order

vars == <<store, first, wrote, call, ret, kpc, kraw, kvlm, ktext, kvlm2,
          wpc, history, objects, start, stack, seen, printed, reads>>

storeVars == <<store, first, wrote, call, ret>>
kvlmVars == <<kpc, kraw, kvlm, ktext, kvlm2>>
walkVars == <<wpc, history, objects, start, stack, seen, printed, reads>>

----------------------------------------------------------------------------
(* Bounds of the model.                                                    *)

\* longest payload handed to object_hash or found in a stored record
MaxLen == 1
\* most files the object store holds
MaxObjects == 2
\* longest text handed to kvlm_parse
MaxRaw == 6
\* most commits in a history
MaxCommits == 4
\* most parent entries in a history, summed over its commits
MaxEdges == 4

----------------------------------------------------------------------------
(* Bytes.                                                                  *)

NUL == 0
NL == 10
SP == 32

Min(a, b) == IF a < b THEN a ELSE b
Max(a, b) == IF a > b THEN a ELSE b

\* raw[i], 0 <= i < len(raw)
At(raw, i) == raw[i + 1]

\* a slice bound as Python reads it: a negative bound counts from the end
PyBound(raw, i) == IF i < 0 THEN Max(i + Len(raw), 0) ELSE Min(i, Len(raw))

\* raw[lo:hi]
PySlice(raw, lo, hi) == SubSeq(raw, PyBound(raw, lo) + 1, PyBound(raw, hi))

\* raw[lo:]
PyFrom(raw, lo) == SubSeq(raw, PyBound(raw, lo) + 1, Len(raw))

\* raw.find(b, from): the least index >= from holding byte b, or -1
Find(raw, b, from) ==
    LET hits == {i \in PyBound(raw, from)..(Len(raw) - 1) : At(raw, i) = b}
    IN  IF hits = {} THEN -1
        ELSE CHOOSE i \in hits : \A j \in hits : i <= j

\* the byte strings over alphabet of length at most n
RECURSIVE BytesUpTo(_, _)
BytesUpTo(alphabet, n) ==
    IF n = 0 THEN {<<>>}
    ELSE LET shorter == BytesUpTo(alphabet, n - 1)
         IN  shorter \cup {Append(s, b) : s \in shorter, b \in alphabet}

----------------------------------------------------------------------------
(* The KVLM codec.  An OrderedDict is a sequence of entries in insertion   *)
(* order; an entry holds its key, whether the value is a Python list, and  *)
(* the value(s): a bare bytes value is list = FALSE with one element.       *)

Entry(key, isList, values) == [k |-> key, list |-> isList, v |-> values]

HasKey(dct, key) == \E i \in 1..Len(dct) : dct[i].k = key

KeyIndex(dct, key) == CHOOSE i \in 1..Len(dct) : dct[i].k = key

\* dct[key] = value: an existing key keeps its position
DictSet(dct, key, isList, values) ==
    IF HasKey(dct, key)
    THEN [dct EXCEPT ![KeyIndex(dct, key)] = Entry(key, isList, values)]
    ELSE Append(dct, Entry(key, isList, values))

\* value.replace(b'\n ', b'\n')
RECURSIVE DropContinuation(_)
DropContinuation(value) ==
    IF Len(value) = 0 THEN <<>>
    ELSE IF Len(value) >= 2 /\ value[1] = NL /\ value[2] = SP
         THEN <<NL>> \o DropContinuation(SubSeq(value, 3, Len(value)))
         ELSE <<value[1]>> \o DropContinuation(Tail(value))

\* v.replace(b'\n', b'\n ')
RECURSIVE AddContinuation(_)
AddContinuation(value) ==
    IF Len(value) = 0 THEN <<>>
    ELSE IF value[1] = NL
         THEN <<NL, SP>> \o AddContinuation(Tail(value))
         ELSE <<value[1]>> \o AddContinuation(Tail(value))

LoopResult(error, end) == [err |-> error, end |-> end]

\* The loop of kvlm_parse that finds the end of a value:
\*     while True:
\*         end = raw.find(b'\n', end + 1)
\*         if raw[end + 1] != ord(' '): break
\* The loop's state is end alone, so more than len(raw) + 1 rounds repeat a
\* state and the loop never ends ("hang").
RECURSIVE ValueEnd(_, _, _)
ValueEnd(raw, end, fuel) ==
    LET e == Find(raw, NL, end + 1)
    IN  IF e + 1 >= Len(raw) THEN LoopResult("IndexError", e)
        ELSE IF At(raw, e + 1) # SP THEN LoopResult("none", e)
        ELSE IF fuel = 0 THEN LoopResult("hang", e)
        ELSE ValueEnd(raw, e, fuel - 1)

KvlmResult(error, dct) == [err |-> error, dct |-> dct]

\* kvlm_parse(raw, start, dct).  Which branch is taken depends on raw and
\* start alone, so a recursion deeper than len(raw) + 1 repeats a start and
\* never returns: Python raises RecursionError.
RECURSIVE kvlm_parse_from(_, _, _, _)
kvlm_parse_from(raw, from, dct, fuel) ==
    LET spc == Find(raw, SP, from)
        nl  == Find(raw, NL, from)
    IN  IF (spc < 0) \/ (nl < spc)
        THEN IF nl # from THEN KvlmResult("AssertionError", <<>>)
             ELSE KvlmResult("none", DictSet(dct, <<>>, FALSE, <<PyFrom(raw, from + 1)>>))
        ELSE LET key == PySlice(raw, from, spc)
                 loop == ValueEnd(raw, from, Len(raw) + 1)
                 end == loop.end
             IN  IF loop.err # "none" THEN KvlmResult(loop.err, <<>>)
                 ELSE IF fuel = 0 THEN KvlmResult("RecursionError", <<>>)
                 ELSE LET value == DropContinuation(PySlice(raw, spc + 1, end))
                          next  ==
                              IF HasKey(dct, key)
                              THEN LET old == dct[KeyIndex(dct, key)]
                                   IN  DictSet(dct, key, TRUE, Append(old.v, value))
                              ELSE DictSet(dct, key, FALSE, <<value>>)
                      IN  kvlm_parse_from(raw, end + 1, next, fuel - 1)

kvlm_parse(raw) == kvlm_parse_from(raw, 0, <<>>, Len(raw) + 1)

\* the lines kvlm_serialize writes for one key
RECURSIVE FieldLines(_, _)
FieldLines(key, values) ==
    IF Len(values) = 0 THEN <<>>
    ELSE key \o <<SP>> \o AddContinuation(values[1]) \o <<NL>>
         \o FieldLines(key, Tail(values))

RECURSIVE AllFieldLines(_)
AllFieldLines(dct) ==
    IF Len(dct) = 0 THEN <<>>
    ELSE (IF dct[1].k = <<>> THEN <<>> ELSE FieldLines(dct[1].k, dct[1].v))
         \o AllFieldLines(Tail(dct))

SerializeResult(error, data) == [err |-> error, data |-> data]

\* kvlm_serialize(kvlm)
kvlm_serialize(dct) ==
    IF ~HasKey(dct, <<>>) THEN SerializeResult("KeyError", <<>>)
    ELSE LET message == dct[KeyIndex(dct, <<>>)]
         IN  IF message.list THEN SerializeResult("TypeError", <<>>)
             ELSE SerializeResult("none", AllFieldLines(dct) \o <<NL>> \o message.v[1])

----------------------------------------------------------------------------
(* Objects and their framing.                                              *)

BlobFmt == <<98, 108, 111, 98>>
CommitFmt == <<99, 111, 109, 109, 105, 116>>
TreeFmt == <<116, 114, 101, 101>>
TagFmt == <<116, 97, 103>>

\* the types the command line accepts
Kinds == {BlobFmt, CommitFmt, TagFmt, TreeFmt}

\* str(n).encode()
RECURSIVE Decimal(_)
Decimal(n) ==
    IF n < 10 THEN <<48 + n>> ELSE Append(Decimal(n \div 10), 48 + (n % 10))

IsDigit(b) == b >= 48 /\ b <= 57
IsBlank(b) == b \in {SP, NL, 9, 11, 12, 13}

RECURSIVE StripLeft(_)
StripLeft(s) == IF Len(s) > 0 /\ IsBlank(s[1]) THEN StripLeft(Tail(s)) ELSE s

RECURSIVE StripRight(_)
StripRight(s) ==
    IF Len(s) > 0 /\ IsBlank(s[Len(s)]) THEN StripRight(SubSeq(s, 1, Len(s) - 1)) ELSE s

RECURSIVE DigitsValue(_)
DigitsValue(s) ==
    IF Len(s) = 0 THEN 0
    ELSE 10 * DigitsValue(SubSeq(s, 1, Len(s) - 1)) + (s[Len(s)] - 48)

IntResult(error, value) == [err |-> error, val |-> value]

\* int(s.decode('ascii')) for a text of blanks and decimal digits: blanks
\* around the digits are ignored, anything else is a ValueError
ParseInt(s) ==
    LET digits == StripRight(StripLeft(s))
    IN  IF Len(digits) = 0 \/ \E i \in 1..Len(digits) : ~IsDigit(digits[i])
        THEN IntResult("ValueError", 0)
        ELSE IntResult("none", DigitsValue(digits))

\* obj.fmt + b' ' + str(len(data)).encode() + b'\x00' + data
Frame(fmt, data) == fmt \o <<SP>> \o Decimal(Len(data)) \o <<NUL>> \o data

\* the header of a record that declares size bytes, followed by data
FrameDeclaring(fmt, size, data) == fmt \o <<SP>> \o Decimal(size) \o <<NUL>> \o data

NoObject == [fmt |-> <<>>, hasdata |-> FALSE, blobdata |-> <<>>, kvlm |-> <<>>]

ObjectResult(error, obj) == [err |-> error, obj |-> obj]

\* GitBlob(repo, data) and GitCommit(repo, data): GitObject.__init__ calls
\* deserialize only "if data", so an empty payload sets no attribute
NewObject(fmt, data) ==
    IF data = <<>>
    THEN ObjectResult("none", [NoObject EXCEPT !.fmt = fmt])
    ELSE IF fmt = BlobFmt
    THEN ObjectResult("none", [NoObject EXCEPT !.fmt = fmt, !.hasdata = TRUE,
                                               !.blobdata = data])
    ELSE LET parsed == kvlm_parse(data)
         IN  IF parsed.err # "none" THEN ObjectResult(parsed.err, NoObject)
             ELSE ObjectResult("none", [NoObject EXCEPT !.fmt = fmt, !.hasdata = TRUE,
                                                        !.kvlm = parsed.dct])

\* obj.serialize(): GitBlob returns self.blobdata, GitCommit
\* kvlm_serialize(self.kvlm); the attribute is missing when deserialize never ran
Serialize(obj) ==
    IF ~obj.hasdata THEN SerializeResult("AttributeError", <<>>)
    ELSE IF obj.fmt = BlobFmt THEN SerializeResult("none", obj.blobdata)
    ELSE kvlm_serialize(obj.kvlm)

----------------------------------------------------------------------------
(* hashlib.sha1 and zlib.                                                  *)

HexDigit(n) == IF n < 10 THEN 48 + n ELSE 87 + n

HexByte(b) == <<HexDigit(b \div 16), HexDigit(b % 16)>>

RECURSIVE HexBytes(_)
HexBytes(bytes) ==
    IF Len(bytes) = 0 THEN <<>> ELSE HexByte(bytes[1]) \o HexBytes(Tail(bytes))

\* the longest framed record of the model
MaxFrame == Len(CommitFmt) + 3 + MaxLen

\* the length of a digest in hex characters (40 for SHA-1)
DigestLen == 2 * (MaxFrame + 1)

\* hashlib.sha1(result).hexdigest().  SHA-1 is modelled as a digest without
\* collisions: a fixed-width lowercase hex string that differs for any two
\* records of the model (the record's length and bytes in hex, zero-padded).
Sha1Hex(bytes) ==
    LET hex == HexByte(Len(bytes)) \o HexBytes(bytes)
    IN  hex \o [i \in 1..(DigestLen - Len(hex)) |-> 48]

\* the two running sums of Adler-32 over bytes[i..], from sums a and b
RECURSIVE AdlerSums(_, _, _, _)
AdlerSums(bytes, i, a, b) ==
    IF i > Len(bytes) THEN <<a, b>>
    ELSE LET a2 == (a + bytes[i]) % 65521
         IN  AdlerSums(bytes, i + 1, a2, (b + a2) % 65521)

\* the Adler-32 checksum that ends a zlib stream, as four bytes
Adler32(bytes) ==
    LET sums == AdlerSums(bytes, 1, 1, 0)
    IN  <<sums[2] \div 256, sums[2] % 256, sums[1] \div 256, sums[1] % 256>>

\* zlib.compress(result): the two header bytes, the data, the checksum.
\* The DEFLATE coding of the data is not modelled: the data stands for it.
Compress(bytes) == <<120, 156>> \o bytes \o Adler32(bytes)

DecompressResult(error, raw) == [err |-> error, raw |-> raw]

\* zlib.decompress(file.read())
Decompress(file) ==
    LET body == SubSeq(file, 3, Len(file) - 4)
    IN  IF /\ Len(file) >= 6
           /\ SubSeq(file, 1, 2) = <<120, 156>>
           /\ SubSeq(file, Len(file) - 3, Len(file)) = Adler32(body)
        THEN DecompressResult("none", body)
        ELSE DecompressResult("zlib.error", <<>>)

----------------------------------------------------------------------------
(* The object store.                                                       *)

\* repo.gitdir / "objects" / sha[:2] / sha[2:]
ObjPath(sha) == <<PySlice(sha, 0, 2), PyFrom(sha, 2)>>

\* the id a stored file is named by
PathId(path) == path[1] \o path[2]

\* a write that opens the file for appending
WriteFileAppending(files, path, bytes) ==
    [q \in DOMAIN files \cup {path} |->
        IF q # path THEN files[q]
        ELSE IF path \in DOMAIN files THEN files[path] \o bytes ELSE bytes]

\* a write that leaves path the only file of the store
WriteFileAlone(files, path, bytes) == [q \in {path} |-> bytes]

\* with open(path, "wb") as file: file.write(bytes)
WriteFile(files, path, bytes) ==
    [q \in DOMAIN files \cup {path} |-> IF q = path THEN bytes ELSE files[q]]

\* obj_find(repo, name, fmt, follow)
obj_find(name) == name

\* a size check that counts the null byte as payload
SizeMatchesOffByOne(size, raw, zero_index) == size = Len(raw) - zero_index

\* the size check of obj_read
SizeMatches(size, raw, zero_index) == size = Len(raw) - zero_index - 1

\* match format: only b'commit' and b'blob' name a class
KnownFormat(format) == format \in {CommitFmt, BlobFmt}

\* obj_read(repo, sha) on the files of the store
obj_read(files, sha) ==
    LET path == ObjPath(sha)
    IN  IF path \notin DOMAIN files THEN ObjectResult("FileNotFoundError", NoObject)
        ELSE
        LET unzip == Decompress(files[path])
            raw == unzip.raw
            space_index == Find(raw, SP, 0)
            format == PySlice(raw, 0, space_index)
            zero_index == Find(raw, NUL, space_index)
            size == ParseInt(PySlice(raw, space_index, zero_index))
        IN  IF unzip.err # "none" THEN ObjectResult(unzip.err, NoObject)
            ELSE IF size.err # "none" THEN ObjectResult(size.err, NoObject)
            ELSE IF ~SizeMatches(size.val, raw, zero_index)
            THEN ObjectResult("Exception: bad length", NoObject)
            ELSE IF ~KnownFormat(format) THEN ObjectResult("TypeError", NoObject)
            ELSE NewObject(format, PyFrom(raw, zero_index + 1))

WriteResult(error, sha, files) == [err |-> error, sha |-> sha, files |-> files]

\* obj_write(obj, actually_write) on the files of the store
obj_write(files, obj, actually_write) ==
    LET data == Serialize(obj)
        result == Frame(obj.fmt, data.data)
        sha == Sha1Hex(result)
    IN  IF data.err # "none" THEN WriteResult(data.err, <<>>, files)
        ELSE IF actually_write
        THEN WriteResult("none", sha, WriteFile(files, ObjPath(sha), Compress(result)))
        ELSE WriteResult("none", sha, files)

\* object_hash(fd, fmt, repo): repo is None unless -w was given
object_hash(files, data, fmt, write) ==
    IF fmt # BlobFmt THEN WriteResult("Exception: unknown type", <<>>, files)
    ELSE obj_write(files, NewObject(BlobFmt, data).obj, write)

----------------------------------------------------------------------------
(* The operations on the store.                                            *)

\* the payloads of the model: runs of the letter a and runs of newlines
Payloads == BytesUpTo({97}, MaxLen) \cup BytesUpTo({NL}, MaxLen)

\* the sizes a record written by another tool declares for payload data:
\* the right one, one less and one more
DeclaredSizes(data) == {n \in {Len(data) - 1, Len(data), Len(data) + 1} : n >= 0}

\* the records another tool may have left in the store
ExternalRecords ==
    UNION {{FrameDeclaring(fmt, n, data) : n \in DeclaredSizes(data)} :
              fmt \in Kinds, data \in Payloads}

\* the store that holds the records recs, each under its digest
FilesOf(recs) ==
    [path \in {ObjPath(Sha1Hex(r)) : r \in recs} |->
        Compress(CHOOSE r \in recs : ObjPath(Sha1Hex(r)) = path)]

\* the framed bytes of each file of the store
FramesOf(files) == [path \in DOMAIN files |-> Decompress(files[path]).raw]

\* the ids handed to obj_read: those of the stored objects and one that is
\* not stored
Shas(files) == {PathId(path) : path \in DOMAIN files} \cup {Sha1Hex(<<>>)}

\* the names handed to cat_file and obj_find: the same ids, and the first
\* four characters of the ids of the stored objects
Names(files) == Shas(files) \cup {PySlice(PathId(path), 0, 4) : path \in DOMAIN files}

NoCall == [op |-> "none", name |-> <<>>, data |-> <<>>, fmt |-> <<>>, write |-> FALSE]
\* again is history: the call wrote framed bytes an earlier obj_write had written
NoReturn == [err |-> "none", sha |-> <<>>, obj |-> NoObject, out |-> <<>>,
             again |-> FALSE]

NoKvlm == KvlmResult("unset", <<>>)
NoText == SerializeResult("unset", <<>>)

StoreIdle ==
    /\ store = <<>>
    /\ first = <<>>
    /\ wrote = {}
    /\ call = NoCall
    /\ ret = NoReturn

WalkIdle ==
    /\ wpc = "idle"
    /\ history = <<>>
    /\ objects = <<>>
    /\ start = <<>>
    /\ stack = <<>>
    /\ seen = {}
    /\ printed = <<>>
    /\ reads = <<>>

KvlmIdle ==
    /\ kpc = "idle"
    /\ kraw = <<>>
    /\ kvlm = NoKvlm
    /\ ktext = NoText
    /\ kvlm2 = NoKvlm

Init ==
    /\ \E recs \in {{}} \cup {{r} : r \in ExternalRecords} :
        /\ store = FilesOf(recs)
        /\ first = FramesOf(FilesOf(recs))
    /\ wrote = {}
    /\ call = NoCall
    /\ ret = NoReturn
    /\ KvlmIdle
    /\ WalkIdle

\* the files handed to object_hash: every payload as a blob; the other
\* types are refused before the data is looked at, one payload stands for all
HashPayloads(fmt) == IF fmt = BlobFmt THEN Payloads ELSE {<<97>>}

\* the history after an operation left the store as files
FirstAfter(files) ==
    [path \in DOMAIN first \cup DOMAIN files |->
        IF path \in DOMAIN first THEN first[path] ELSE Decompress(files[path]).raw]

\* cmd_hash_object: object_hash(fd, args.type.encode(), repo), print(sha)
ObjectHash ==
    \E fmt \in Kinds, write \in BOOLEAN :
    \E data \in HashPayloads(fmt) :
    \E r \in {object_hash(store, data, fmt, write)} :
            /\ Cardinality(DOMAIN r.files) <= MaxObjects
            /\ store' = r.files
            /\ first' = FirstAfter(r.files)
            /\ wrote' = IF r.err = "none" /\ write
                        THEN wrote \cup {<<Frame(fmt, data), r.sha>>}
                        ELSE wrote
            /\ call' = [NoCall EXCEPT !.op = "object_hash", !.data = data,
                                      !.fmt = fmt, !.write = write]
            /\ ret' = [NoReturn EXCEPT !.err = r.err, !.sha = r.sha,
                                     !.again = /\ r.err = "none"
                                               /\ write
                                               /\ <<Frame(fmt, data), r.sha>> \in wrote]
            /\ UNCHANGED <<kvlmVars, walkVars>>

\* obj_read(repo, sha)
ObjRead ==
    \E sha \in Shas(store) :
    \E r \in {obj_read(store, sha)} :
            /\ call' = [NoCall EXCEPT !.op = "obj_read", !.name = sha]
            /\ ret' = [NoReturn EXCEPT !.err = r.err, !.obj = r.obj]
            /\ UNCHANGED <<store, first, wrote, kvlmVars, walkVars>>

\* cat_file(repo, obj_name, fmt): obj_read(repo, obj_find(repo, obj_name, fmt)),
\* then obj.serialize() to stdout
CatFile ==
    \E name \in Names(store) :
    \E r \in {obj_read(store, obj_find(name))} :
    \E out \in {Serialize(r.obj)} :
            /\ call' = [NoCall EXCEPT !.op = "cat_file", !.name = name]
            /\ ret' = IF r.err # "none" THEN [NoReturn EXCEPT !.err = r.err]
                      ELSE [NoReturn EXCEPT !.err = out.err, !.obj = r.obj,
                                            !.out = out.data]
            /\ UNCHANGED <<store, first, wrote, kvlmVars, walkVars>>

\* obj_find(repo, name)
ObjFind ==
    \E name \in Names(store) :
        /\ call' = [NoCall EXCEPT !.op = "obj_find", !.name = name]
        /\ ret' = [NoReturn EXCEPT !.sha = obj_find(name)]
        /\ UNCHANGED <<store, first, wrote, kvlmVars, walkVars>>

Next == ObjectHash \/ ObjRead \/ CatFile \/ ObjFind

Spec == Init /\ [][Next]_vars

----------------------------------------------------------------------------
(* Properties of the store.                                                *)

\* the file the last call named is stored
NamedIsStored == ObjPath(call.name) \in DOMAIN store

\* C1: for every byte sequence b, the empty one included, object_hash of b as
\* a blob with writing enabled returns the id of b's frame, and reading that
\* id back yields an object whose serialize() returns b.
C1_WriteThenRead ==
    /\ (call.op = "object_hash" /\ call.fmt = BlobFmt /\ call.write)
        => (ret.err = "none" /\ ret.sha = Sha1Hex(Frame(BlobFmt, call.data)))
    /\ \A w \in wrote :
        (call.op = "cat_file" /\ call.name = w[2])
            => (ret.err = "none" /\ Frame(BlobFmt, ret.out) = w[1])

\* C2: for every kind k of blob, tree, commit, tag and every payload p,
\* obj_read of the stored frame "k len(p) NUL p" yields an object of kind k
\* that carries p.
C2_ParseFrame ==
    \A fmt \in Kinds, data \in Payloads :
        (/\ call.op = "obj_read"
         /\ NamedIsStored
         /\ Decompress(store[ObjPath(call.name)]).raw = Frame(fmt, data))
            => (/\ ret.err = "none"
                /\ ret.obj.fmt = fmt
                /\ Serialize(ret.obj) = SerializeResult("none", data))

\* C3: an obj_write of framed bytes that an earlier obj_write wrote returns
\* the id the earlier call returned, does not fail, and leaves the store as
\* it was.
C3_WriteTwice ==
    [][\A w \in wrote :
        (/\ call'.op = "object_hash"
         /\ call'.write
         /\ Frame(call'.fmt, call'.data) = w[1])
            => (ret'.err = "none" /\ ret'.sha = w[2] /\ store' = store)]_vars

\* C3, witness: a second write of the same bytes returned, with another
\* object in the store
C3_Witness ==
    /\ call.op = "object_hash"
    /\ ret.again
    /\ ret.err = "none"
    /\ Cardinality(DOMAIN store) > 1

\* C6: every file that was ever in the store is still there and decompresses
\* to the framed bytes it held when it first appeared.
C6_Immutable ==
    \A path \in DOMAIN first :
        /\ path \in DOMAIN store
        /\ Decompress(store[path]) = DecompressResult("none", first[path])

\* C6, witness: obj_write has written over a file of the store, next to a
\* record another tool left there, and the file has been read since
C6_Witness ==
    /\ call.op \in {"obj_read", "cat_file"}
    /\ NamedIsStored
    /\ \E w \in wrote : ObjPath(w[2]) = ObjPath(call.name) /\ first[ObjPath(w[2])] = w[1]
    /\ \E path \in DOMAIN store : \A w \in wrote : path # ObjPath(w[2])

\* the unambiguous four-character prefixes: name is the start of the id of
\* exactly one stored object
Resolves(name, path) ==
    /\ path \in DOMAIN store
    /\ Len(name) = 4
    /\ {q \in DOMAIN store : PySlice(PathId(q), 0, 4) = name} = {path}

\* C7: obj_find of an unambiguous four-character prefix of a stored id
\* returns the full id.
C7_ResolvePrefix ==
    \A path \in DOMAIN store :
        (call.op = "obj_find" /\ Resolves(call.name, path)) => ret.sha = PathId(path)

\* the records whose header declares a size other than the number of bytes
\* after the null byte
BadRecords == {r \in ExternalRecords : r \notin {Frame(fmt, data) : fmt \in Kinds, data \in Payloads}}

\* the stored record named sha is one of them
BadLength(files, sha) ==
    /\ ObjPath(sha) \in DOMAIN files
    /\ Decompress(files[ObjPath(sha)]).raw \in BadRecords

\* C8: obj_read of a record whose declared size is not the size of its
\* payload raises, returns no object and leaves the store as it was.
C8_BadLength ==
    [][(call'.op \in {"obj_read", "cat_file"} /\ BadLength(store, call'.name))
        => (/\ ret'.err = "Exception: bad length"
            /\ ret'.obj = NoObject
            /\ store' = store)]_vars

\* C8, witness: obj_read has refused such a record
C8_Witness ==
    /\ call.op = "obj_read"
    /\ BadLength(store, call.name)
    /\ ret.err = "Exception: bad length"

----------------------------------------------------------------------------
(* The KVLM round trip: kvlm_parse, kvlm_serialize, kvlm_parse again.      *)

KvlmBytes == {97, SP, NL}

InitKvlm ==
    /\ StoreIdle
    /\ WalkIdle
    /\ kpc = "raw"
    /\ kraw \in BytesUpTo(KvlmBytes, MaxRaw)
    /\ kvlm = NoKvlm
    /\ ktext = NoText
    /\ kvlm2 = NoKvlm

\* GitCommit.deserialize(data): self.kvlm = kvlm_parse(data)
KvlmParse ==
    /\ kpc = "raw"
    /\ kvlm' = kvlm_parse(kraw)
    /\ kpc' = IF kvlm'.err = "none" THEN "parsed" ELSE "failed"
    /\ UNCHANGED <<kraw, ktext, kvlm2>>
    /\ UNCHANGED <<storeVars, walkVars>>

\* GitCommit.serialize(): kvlm_serialize(self.kvlm)
KvlmSerialize ==
    /\ kpc = "parsed"
    /\ ktext' = kvlm_serialize(kvlm.dct)
    /\ kpc' = IF ktext'.err = "none" THEN "serialized" ELSE "failed"
    /\ UNCHANGED <<kraw, kvlm, kvlm2>>
    /\ UNCHANGED <<storeVars, walkVars>>

\* kvlm_parse of the serialized text
KvlmReparse ==
    /\ kpc = "serialized"
    /\ kvlm2' = kvlm_parse(ktext.data)
    /\ kpc' = "done"
    /\ UNCHANGED <<kraw, kvlm, ktext>>
    /\ UNCHANGED <<storeVars, walkVars>>

NextKvlm == KvlmParse \/ KvlmSerialize \/ KvlmReparse

SpecKvlm == InitKvlm /\ [][NextKvlm]_vars

\* C4: every record kvlm_parse produces is serialized without error, and
\* kvlm_parse of the serialized text is the same ordered mapping: the same
\* keys in the same order with the same values.
C4_RoundTrip ==
    /\ kpc = "failed" => kvlm.err # "none"
    /\ kpc = "done" => kvlm2 = kvlm

----------------------------------------------------------------------------
(* The commit-graph walk: cmd_log and log_graphviz.                        *)

ParentKey == <<112, 97, 114, 101, 110, 116>>

\* the id of the n-th commit of a history
CommitId(n) == <<99, 48, HexDigit(n)>>

\* A history is a sequence of edges <<commit, parent>>, both numbers of
\* commits.  The walk treats ids as opaque names, so one numbering stands for
\* every history of the same shape: commit 1 is the start, the edges are
\* grouped by commit in increasing order, and a commit gets the next free
\* number when it is first named as a parent.
Known(edges) ==
    LET named == {1} \cup {edges[i][2] : i \in 1..Len(edges)}
    IN  CHOOSE n \in named : \A m \in named : m <= n

MoreEdges(edges) ==
    LET from == IF Len(edges) = 0 THEN 1 ELSE edges[Len(edges)][1]
    IN  {Append(edges, <<c, p>>) :
            c \in from..Known(edges),
            p \in 1..Min(Known(edges) + 1, MaxCommits)}

\* the histories of exactly n edges
RECURSIVE HistoriesOf(_)
HistoriesOf(n) ==
    IF n = 0 THEN {<<>>} ELSE UNION {MoreEdges(edges) : edges \in HistoriesOf(n - 1)}

Histories == UNION {HistoriesOf(n) : n \in 0..MaxEdges}

\* the parent field of commit c, in the order recorded
RECURSIVE ParentsOf(_, _)
ParentsOf(edges, c) ==
    IF Len(edges) = 0 THEN <<>>
    ELSE IF edges[1][1] = c
         THEN <<CommitId(edges[1][2])>> \o ParentsOf(Tail(edges), c)
         ELSE ParentsOf(Tail(edges), c)

\* the KVLM of a commit with the parent ids parents and an empty message
CommitKvlm(parents) ==
    IF Len(parents) = 0 THEN <<Entry(<<>>, FALSE, <<<<>>>>)>>
    ELSE <<Entry(ParentKey, Len(parents) > 1, parents), Entry(<<>>, FALSE, <<<<>>>>)>>

\* the file of a commit
CommitFile(parents) ==
    Compress(Frame(CommitFmt, kvlm_serialize(CommitKvlm(parents)).data))

\* what stands in the store for a commit that is no commit: a blob, or a
\* commit with an empty payload
OtherFile(kind) ==
    IF kind = "blob" THEN Compress(Frame(BlobFmt, <<97>>))
    ELSE Compress(Frame(CommitFmt, <<>>))

\* the ways one id of a history names no commit
BadKinds == {"missing", "blob", "empty"}

InitWalk ==
    /\ start = CommitId(1)
    /\ \E edges \in Histories :
       \E bad \in {0} \cup {c \in 1..Known(edges) : ParentsOf(edges, c) = <<>>} :
       \E kind \in IF bad = 0 THEN {"none"} ELSE BadKinds :
        /\ history = [sha \in {CommitId(c) : c \in (1..Known(edges)) \ {bad}} |->
                        ParentsOf(edges, CHOOSE c \in 1..Known(edges) : CommitId(c) = sha)]
        /\ store = [path \in {ObjPath(CommitId(c)) :
                                 c \in (1..Known(edges)) \ (IF kind = "missing" THEN {bad} ELSE {})} |->
                        LET c == CHOOSE c \in 1..Known(edges) : ObjPath(CommitId(c)) = path
                        IN  IF c = bad THEN OtherFile(kind)
                            ELSE CommitFile(ParentsOf(edges, c))]
    /\ objects = [sha \in DOMAIN history \cup {start} \cup {PathId(path) : path \in DOMAIN store}
                       \cup UNION {{history[c][i] : i \in 1..Len(history[c])} :
                                      c \in DOMAIN history} |->
                    obj_read(store, sha)]
    /\ first = FramesOf(store)
    /\ wrote = {}
    /\ call = NoCall
    /\ ret = NoReturn
    /\ KvlmIdle
    /\ wpc = "idle"
    /\ stack = <<>>
    /\ seen = {}
    /\ printed = <<>>
    /\ reads = <<>>

\* the deepest recursion a walk of the model needs: one call per commit and
\* one that returns at once
StackCap == MaxCommits + 1

CallFrame(sha) == [sha |-> sha, pc |-> "enter", parents |-> <<>>, i |-> 0]

Top == stack[Len(stack)]

Pop == SubSeq(stack, 1, Len(stack) - 1)

\* a return to the caller, or to cmd_log
Return ==
    /\ stack' = Pop
    /\ wpc' = IF Len(stack) = 1 THEN "done" ELSE "run"

\* a seen.add that is left out
AddSeenNothing(set, sha) == set

\* seen.add(sha)
AddSeen(set, sha) == set \cup {sha}

\* a test that never finds the sha
SeenBeforeNever(set, sha) == FALSE

\* if sha in seen
SeenBefore(set, sha) == sha \in set

\* a normalisation that keeps the first parent only
ParentListFirstOnly(entry) == <<entry.v[1]>>

\* parents = commit.kvlm[b'parent']; if type(parents) != list: parents = [parents]
ParentList(entry) == entry.v

\* p.decode("ascii")
DecodesAscii(bytes) == \A i \in 1..Len(bytes) : bytes[i] < 128

\* cmd_log: log_graphviz(repo, obj_find(repo, args.commit), set())
WalkStart ==
    /\ wpc = "idle"
    /\ wpc' = "run"
    /\ stack' = <<CallFrame(obj_find(start))>>
    /\ seen' = {}
    /\ UNCHANGED <<history, objects, start, printed, reads>>
    /\ UNCHANGED <<storeVars, kvlmVars>>

\* log_graphviz up to the loop: the seen test, obj_read, the assert, the
\* base case, the parents.  The walk writes nothing, so obj_read(repo, sha)
\* returns the same whenever it is called: objects holds it for each id.
WalkVisit ==
    /\ wpc = "run"
    /\ Top.pc = "enter"
    /\ IF SeenBefore(seen, Top.sha)
       THEN /\ Return
            /\ UNCHANGED <<seen, reads>>
       ELSE \E commit \in {objects[Top.sha]} :
            LET error ==
                    IF commit.err # "none" THEN commit.err
                    ELSE IF commit.obj.fmt # CommitFmt THEN "AssertionError"
                    ELSE IF ~commit.obj.hasdata THEN "AttributeError"
                    ELSE "none"
            IN  /\ seen' = AddSeen(seen, Top.sha)
                /\ reads' = Append(reads, Top.sha)
                /\ IF error # "none"
                   THEN /\ wpc' = "error"
                        /\ stack' = stack
                   ELSE IF ~HasKey(commit.obj.kvlm, ParentKey)
                   THEN Return
                   ELSE /\ wpc' = "run"
                        /\ stack' = [stack EXCEPT ![Len(stack)] =
                              [@ EXCEPT !.pc = "loop", !.i = 1,
                                  !.parents = ParentList(
                                      commit.obj.kvlm[KeyIndex(commit.obj.kvlm, ParentKey)])]]
    /\ UNCHANGED <<history, objects, start, printed>>
    /\ UNCHANGED <<storeVars, kvlmVars>>

\* one round of "for p in parents": decode, print the edge, call log_graphviz
WalkParent ==
    /\ wpc = "run"
    /\ Top.pc = "loop"
    /\ Top.i <= Len(Top.parents)
    /\ Len(stack) < StackCap
    /\ LET p == Top.parents[Top.i]
       IN  IF ~DecodesAscii(p)
           THEN /\ wpc' = "error"
                /\ UNCHANGED <<stack, printed>>
           ELSE /\ wpc' = "run"
                /\ printed' = Append(printed, <<Top.sha, p>>)
                /\ stack' = Append([stack EXCEPT ![Len(stack)].i = @ + 1], CallFrame(p))
    /\ UNCHANGED <<history, objects, start, seen, reads>>
    /\ UNCHANGED <<storeVars, kvlmVars>>

\* the loop is over: log_graphviz returns
WalkReturn ==
    /\ wpc = "run"
    /\ Top.pc = "loop"
    /\ Top.i > Len(Top.parents)
    /\ Return
    /\ UNCHANGED <<history, objects, start, seen, printed, reads>>
    /\ UNCHANGED <<storeVars, kvlmVars>>

NextWalk == WalkStart \/ WalkVisit \/ WalkParent \/ WalkReturn

SpecWalk == InitWalk /\ [][NextWalk]_vars

\* log_graphviz runs to its end: nothing suspends it
SpecWalkFair == SpecWalk /\ WF_vars(NextWalk)

----------------------------------------------------------------------------
(* Properties of the walk.                                                 *)

\* the ids the walk can come to from the ids in todo: found, and whatever the
\* parent fields of the stored commits lead to
RECURSIVE ReachFrom(_, _)
ReachFrom(todo, found) ==
    IF todo = {} THEN found
    ELSE LET sha == CHOOSE x \in todo : TRUE
             parents == IF sha \in DOMAIN history
                        THEN {history[sha][i] : i \in 1..Len(history[sha])}
                        ELSE {}
         IN  ReachFrom((todo \cup parents) \ (found \cup {sha}), found \cup {sha})

Reach(sha) == ReachFrom({sha}, {})

\* every id the walk can come to names a stored commit
ParentsClosed == \A sha \in Reach(start) : sha \in DOMAIN history

\* the number of obj_read calls for sha
ReadCount(sha) == Cardinality({i \in 1..Len(reads) : reads[i] = sha})

\* C5: the walk reads and expands each commit id at most once, and a walk
\* that returns has read every commit it can come to exactly once: in a
\* diamond, the common ancestor R once.
C5_VisitOnce ==
    /\ \A i, j \in 1..Len(reads) : reads[i] = reads[j] => i = j
    /\ wpc = "done" => \A sha \in Reach(start) : ReadCount(sha) = 1

\* C5, witness: the walk of a diamond has returned: the start has two
\* parents, each with the one parent r, a root
C5_Diamond ==
    /\ wpc = "done"
    /\ \E p1, p2, r \in DOMAIN history :
        /\ Cardinality({start, p1, p2, r}) = 4
        /\ history[start] = <<p1, p2>>
        /\ history[p1] = <<r>>
        /\ history[p2] = <<r>>
        /\ history[r] = <<>>
        /\ ReadCount(r) = 1

RECURSIVE EdgesFrom(_, _)
EdgesFrom(edges, sha) ==
    IF Len(edges) = 0 THEN <<>>
    ELSE IF edges[1][1] = sha
         THEN <<edges[1]>> \o EdgesFrom(Tail(edges), sha)
         ELSE EdgesFrom(Tail(edges), sha)

\* the edges the parent field of commit sha records, in order
EdgesRecorded(sha) == [i \in 1..Len(history[sha]) |-> <<sha, history[sha][i]>>]

\* how often edge was printed
PrintCount(edge) == Cardinality({k \in 1..Len(printed) : printed[k] = edge})

\* where the walk first came to sha: 0 for the start, else the place in
\* printed of the first edge that leads to it
Discovery(sha) ==
    IF sha = start THEN 0
    ELSE LET at == {k \in 1..Len(printed) : printed[k][2] = sha}
         IN  IF at = {} THEN Len(printed) + 1
             ELSE CHOOSE k \in at : \A m \in at : k <= m

\* Depth first: between two successive edges of one commit lie exactly the
\* edges of the commits first come to at or after the first of the two and
\* before the second.
DepthFirst ==
    \A k, n \in 1..Len(printed) :
        (/\ k < n
         /\ printed[k][1] = printed[n][1]
         /\ \A m \in (k + 1)..(n - 1) : printed[m][1] # printed[k][1])
            => \A m \in 1..Len(printed) :
                (k < m /\ m < n) <=> (Discovery(printed[m][1]) \in k..(n - 1))

\* every printed edge is an edge of a stored commit the walk can come to
OnlyAncestry ==
    \A k \in 1..Len(printed) :
        /\ printed[k][1] \in Reach(start) \cap DOMAIN history
        /\ \E i \in 1..Len(history[printed[k][1]]) :
            printed[k][2] = history[printed[k][1]][i]

\* the edges of each commit are printed in the order of its parent field
InParentOrder ==
    \A sha \in Reach(start) \cap DOMAIN history :
        \A i, j \in 1..Len(history[sha]) :
            (i < j /\ history[sha][i] # history[sha][j])
                => \E k, n \in 1..Len(printed) :
                    /\ k < n
                    /\ printed[k] = <<sha, history[sha][i]>>
                    /\ printed[n] = <<sha, history[sha][j]>>

\* C10: a walk that returns has printed, for every commit c it can come to
\* and every entry p of c's parent field, the edge (c, p) exactly once and no
\* other edge, the edges of a commit in the order of its parent field, depth
\* first.
C10_EachEdgeOnce ==
    wpc = "done" =>
        /\ \A sha \in Reach(start) \cap DOMAIN history :
            \A i \in 1..Len(history[sha]) : PrintCount(<<sha, history[sha][i]>>) = 1
        /\ OnlyAncestry
        /\ InParentOrder
        /\ DepthFirst

\* C10 as amended: a walk that returns has printed for every commit it can
\* come to one edge per entry of its parent field, in the order of the field
\* (an id the field records twice is printed twice), no other edge, depth
\* first.
C10_EdgePerEntry ==
    wpc = "done" =>
        /\ \A sha \in Reach(start) \cap DOMAIN history :
            EdgesFrom(printed, sha) = EdgesRecorded(sha)
        /\ OnlyAncestry
        /\ DepthFirst

\* C10, witness: the walk has returned from a merge whose first parent has a
\* parent of its own: three edges, the middle one found below the first parent
C10_MergeWalked ==
    /\ wpc = "done"
    /\ \E p1, p2, r \in DOMAIN history :
        /\ Cardinality({start, p1, p2, r}) = 4
        /\ history[start] = <<p1, p2>>
        /\ history[p1] = <<r>>
        /\ printed = <<<<start, p1>>, <<p1, r>>, <<start, p2>>>>

====
